---- MODULE Spec2Model ----
(***************************************************************************)
(* Keyword Trends API (src/app.py): the shared-secret gate, the TTL cache, *)
(* the window translator parse_since, the cached trend endpoints, the      *)
(* batch aggregator and the group/keyword registry.                        *)
(*                                                                         *)
(* Python strings are sequences of one-character strings; the character    *)
(* U+00B2 (SUPERSCRIPT TWO) is written "sup2".                             *)
(***************************************************************************)
EXTENDS Integers, Sequences, FiniteSets, TLC

VARIABLES CACHE, now, groups, keywords, gseq, kseq, req, resp, calls, effects, setLog

vars == <<CACHE, now, groups, keywords, gseq, kseq, req, resp, calls, effects, setLog>>

(* ------------------------------ bounds --------------------------------- *)
MaxSinceLen == 4
MaxTime == 1801
MaxCacheNow == 4
MaxSeeds == 6
MaxGroups == 1
MaxKeyText == 2
MaxKeywords == 1

(* --------------------------- Python values ----------------------------- *)
None == "None"
\* a missing cell of a string column
NaN == "NaN"
\* numeric cells are trend values 0..100; a missing cell and a non-finite
\* cell are written as negative numbers
NumNaN == 0 - 1
NumInf == 0 - 2
\* ttl=None of cache_set
NoTtl == 0 - 1

\* Python values that are tested for truth carry their type
PyNone == [t |-> "none", v |-> <<>>]
PyList(l) == [t |-> "list", v |-> l]
PyDict(d) == [t |-> "dict", v |-> d]

\* bool(x): None and the empty list are false; the dicts built by the
\* handlers always have keys and are true
Truthy(x) == IF x.t = "list" THEN x.v # <<>> ELSE x.t # "none"

EmptyMap == [x \in {} |-> None]
Put(f, k, e) == [x \in DOMAIN f \cup {k} |-> IF x = k THEN e ELSE f[x]]
Remove(f, k) == [x \in DOMAIN f \ {k} |-> f[x]]

Min(a, b) == IF a <= b THEN a ELSE b

Digits == <<"0", "1", "2", "3", "4", "5", "6", "7", "8", "9">>
AsciiDigits == {Digits[i] : i \in 1..10}

\* str.isdigit() is true of the ASCII digits and of digit characters such as
\* U+00B2 that are not decimal digits
IsDigitChar(c) == c \in AsciiDigits \cup {"sup2"}

IsDecimalChar(c) == c \in AsciiDigits

Whitespace == {" "}

UpperChars == <<"C", "K", "M", "S", "Y", "Z">>
LowerChars == <<"c", "k", "m", "s", "y", "z">>

LowerChar(c) ==
    IF \E i \in 1..Len(UpperChars) : UpperChars[i] = c
    THEN LowerChars[CHOOSE i \in 1..Len(UpperChars) : UpperChars[i] = c]
    ELSE c

StrLower(s) == [i \in 1..Len(s) |-> LowerChar(s[i])]

RECURSIVE LStrip(_)
LStrip(s) == IF s # <<>> /\ Head(s) \in Whitespace THEN LStrip(Tail(s)) ELSE s

RECURSIVE RStrip(_)
RStrip(s) ==
    IF s # <<>> /\ s[Len(s)] \in Whitespace
    THEN RStrip(SubSeq(s, 1, Len(s) - 1))
    ELSE s

StrStrip(s) == RStrip(LStrip(s))

EndsWith(s, c) == s # <<>> /\ s[Len(s)] = c

\* s[:-1]
DropLast(s) == SubSeq(s, 1, Len(s) - 1)

\* str.isdigit(): non-empty and every character a digit character
IsDigit(s) == s # <<>> /\ \A i \in 1..Len(s) : IsDigitChar(s[i])

\* int(s) raises ValueError unless every character is a decimal digit
IntParses(s) == s # <<>> /\ \A i \in 1..Len(s) : IsDecimalChar(s[i])

DigitVal(c) == (CHOOSE i \in 1..10 : Digits[i] = c) - 1

RECURSIVE StrToInt(_)
StrToInt(s) ==
    IF s = <<>> THEN 0 ELSE 10 * StrToInt(DropLast(s)) + DigitVal(s[Len(s)])

\* str(n) / f"{n}" for n >= 0
RECURSIVE IntToStr(_)
IntToStr(n) ==
    IF n < 10 THEN <<Digits[n + 1]>>
    ELSE IntToStr(n \div 10) \o <<Digits[(n % 10) + 1]>>

Today == <<"t", "o", "d", "a", "y", " ">>

\* f"today {n}-{u}"
Window(n, u) == Today \o IntToStr(n) \o <<"-", u>>

Default12m == <<"1", "2", "m">>

Returned(v) == [raised |-> FALSE, val |-> v]
Raised(e) == [raised |-> TRUE, val |-> e]

(* ------------------------------ parse_since ---------------------------- *)
ParseSinceNoLower(s0) ==
    LET s == StrStrip(IF s0 = <<>> THEN Default12m ELSE s0) IN
    IF EndsWith(s, "m") /\ IsDigit(DropLast(s))
    THEN IF ~IntParses(DropLast(s)) THEN Raised("ValueError")
         ELSE LET m == StrToInt(DropLast(s)) IN
              Returned(IF m >= 12 THEN Window(12, "m") ELSE Window(m, "m"))
    ELSE IF EndsWith(s, "y") /\ IsDigit(DropLast(s))
    THEN IF ~IntParses(DropLast(s)) THEN Raised("ValueError")
         ELSE LET y == StrToInt(DropLast(s)) IN
              Returned(IF y >= 5 THEN Window(5, "y") ELSE Window(y, "y"))
    ELSE Returned(Window(12, "m"))

parse_since(s0) ==
    LET s == StrLower(StrStrip(IF s0 = <<>> THEN Default12m ELSE s0)) IN
    IF EndsWith(s, "m") /\ IsDigit(DropLast(s))
    THEN IF ~IntParses(DropLast(s)) THEN Raised("ValueError")
         ELSE LET m == StrToInt(DropLast(s)) IN
              Returned(IF m >= 12 THEN Window(12, "m") ELSE Window(m, "m"))
    ELSE IF EndsWith(s, "y") /\ IsDigit(DropLast(s))
    THEN IF ~IntParses(DropLast(s)) THEN Raised("ValueError")
         ELSE LET y == StrToInt(DropLast(s)) IN
              Returned(IF y >= 5 THEN Window(5, "y") ELSE Window(y, "y"))
    ELSE Returned(Window(12, "m"))

SinceAlphabet == {"0", "1", "2", "5", "6", "m", "y", "M", "Y", " ", "-", "sup2"}

SinceInputs == UNION {[1..n -> SinceAlphabet] : n \in 0..MaxSinceLen}

Idle == [op |-> "idle"]
NoResp == [status |-> 0, body |-> PyNone]

Quiet ==
    /\ CACHE = EmptyMap
    /\ now = 0
    /\ groups = EmptyMap
    /\ keywords = EmptyMap
    /\ gseq = 0
    /\ kseq = 0
    /\ calls = <<>>
    /\ effects = {}
    /\ setLog = EmptyMap

InitSince ==
    /\ Quiet
    /\ req \in {[op |-> "parse_since", since |-> s] : s \in SinceInputs}
    /\ resp = NoResp

ParseSinceOp ==
    /\ req.op = "parse_since"
    /\ resp = NoResp
    /\ resp' = [status |-> 1, result |-> parse_since(req.since)]
    /\ UNCHANGED <<CACHE, now, groups, keywords, gseq, kseq, req, calls, effects, setLog>>

NextSince == ParseSinceOp

SpecSince == InitSince /\ [][NextSince]_vars

(* -------------------------------- cache -------------------------------- *)
CACHE_TTL == 60 * 20

\* cache_get answering absent already when exactly ttl has passed
CacheGetRetInclusive(C, t, k) ==
    IF k \notin DOMAIN C THEN PyNone
    ELSE IF t - C[k].ts >= C[k].ttl THEN PyNone
    ELSE C[k].data

\* cache_get(k) on cache C at time t: the value returned
CacheGetRet(C, t, k) ==
    IF k \notin DOMAIN C THEN PyNone
    ELSE IF t - C[k].ts > C[k].ttl THEN PyNone
    ELSE C[k].data

\* cache_get sweeping every expired entry instead of the one it was asked for
CacheGetStoreSweep(C, t, k) ==
    [x \in {y \in DOMAIN C : t - C[y].ts <= C[y].ttl} |-> C[x]]

\* cache_get(k) on cache C at time t: the cache it leaves
CacheGetStore(C, t, k) ==
    IF k \in DOMAIN C /\ t - C[k].ts > C[k].ttl THEN Remove(C, k) ELSE C

CacheGetEffects(C, t, k) ==
    IF k \in DOMAIN C /\ t - C[k].ts > C[k].ttl
    THEN {"cache_read", "cache_evict"}
    ELSE {"cache_read"}

\* ttl or CACHE_TTL
TtlOrDefault(ttl) == IF ttl = NoTtl \/ ttl = 0 THEN CACHE_TTL ELSE ttl

cache_set(C, t, k, data, ttl) ==
    Put(C, k, [data |-> data, ts |-> t, ttl |-> TtlOrDefault(ttl)])

(* ------------------------------- the gate ------------------------------ *)
API_KEY == "CHANGE_ME"

Keys == {API_KEY, "wrong", None}

\* a path is the sequence of its segments; "/api/x" starts with "/api/"
PathIsApi(path) == Len(path) >= 2 /\ path[1] = "api"

AuthOnlyWhenKeySent(r) ==
    IF PathIsApi(r.path) /\ r.key # None /\ r.key # API_KEY THEN "reject" ELSE "call_next"

auth_middleware(r) ==
    IF PathIsApi(r.path) /\ r.key # API_KEY THEN "reject" ELSE "call_next"

Response(status, body) == [status |-> status, body |-> body]

Unauthorized == Response(401, PyDict([error |-> "Unauthorized"]))

(* ------------------------------ provider ------------------------------- *)
Colon == <<":">>

Kws == {<<"a">>}
Geos == {<<"C", "Z">>}
Sinces == {<<"3", "m">>, <<"sup2", "m">>}

\* an exception raised inside the provider call
Raise == Raised("Exception")

Outcomes(results) == {Returned(x) : x \in results} \cup {Raise}

\* trending_searches: a one-column frame, given as the list of its cells
TrendingFrames == {<<>>, <<"q1", NaN>>}

\* dropna()
RECURSIVE DropNa(_)
DropNa(col) ==
    IF col = <<>> THEN <<>>
    ELSE IF Head(col) = NaN THEN DropNa(Tail(col))
    ELSE <<Head(col)>> \o DropNa(Tail(col))

\* head(30)
Head30(col) == SubSeq(col, 1, Min(30, Len(col)))

\* interest_over_time: a frame is its index and its columns
EmptyFrame == [index |-> <<>>, columns |-> EmptyMap]

FrameKinds == {"empty", "other", "data1", "data2", "nonfinite"}

InterestFrame(kind, term) ==
    CASE kind = "empty" -> EmptyFrame
      [] kind = "other" -> [index |-> <<"w1">>, columns |-> Put(EmptyMap, <<"o">>, <<1>>)]
      [] kind = "data1" -> [index |-> <<"w1", "w2">>, columns |-> Put(EmptyMap, term, <<3, NumNaN>>)]
      [] kind = "data2" -> [index |-> <<"w3">>, columns |-> Put(EmptyMap, term, <<5>>)]
      [] kind = "nonfinite" -> [index |-> <<"w4">>, columns |-> Put(EmptyMap, term, <<NumInf>>)]

InterestFrames(term) == {InterestFrame(kind, term) : kind \in FrameKinds}

\* what one interest_over_time call for term does
InterestOutcome(kind, term) ==
    IF kind = "raise" THEN Raise ELSE Returned(InterestFrame(kind, term))

\* df.empty
FrameEmpty(df) == df.index = <<>> \/ DOMAIN df.columns = {}

\* fillna(0)
FillNa0(col) == [i \in 1..Len(col) |-> IF col[i] = NumNaN THEN 0 ELSE col[i]]

\* astype(int) raises on a non-finite value
AsIntRaises(col) == \E i \in 1..Len(col) : col[i] = NumInf

\* related_queries: a dict term -> {top, rising}, a block being a list of
\* rows (PyList) or None (PyNone)
Row(q, v) == [query |-> q, value |-> v]

RelatedResults(term) ==
    { EmptyMap,
      Put(EmptyMap, term, [top |-> PyList(<<Row("q1", 7), Row("q2", NumNaN)>>), rising |-> PyNone]),
      Put(EmptyMap, term, [top |-> PyList(<<Row("q1", 7)>>), rising |-> PyList(<<Row("q3", NumNaN)>>)]) }

\* block[["query","value"]].fillna(0).to_dict(orient="records")
Records(rows) ==
    [i \in 1..Len(rows) |->
        Row(rows[i].query, IF rows[i].value = NumNaN THEN 0 ELSE rows[i].value)]

BadGateway == Response(502, PyDict([detail |-> "pytrends error"]))
ServerError == Response(500, PyDict([detail |-> "Internal Server Error"]))

Call(fn, arg, result) == [fn |-> fn, arg |-> arg, result |-> result]

(* -------------------------- cached endpoints --------------------------- *)
TrendingKey(geo) == <<"t", "r", "e", "n", "d", "i", "n", "g">> \o Colon \o geo

InterestKey(kw, geo, tf) ==
    <<"i", "n", "t", "e", "r", "e", "s", "t">> \o Colon \o kw \o Colon \o geo \o Colon \o tf

RelatedKey(kw, geo, tf) ==
    <<"r", "e", "l", "a", "t", "e", "d">> \o Colon \o kw \o Colon \o geo \o Colon \o tf

TrendingReqs ==
    [op : {"trending"}, path : {<<"api", "trending">>}, key : Keys, geo : Geos]

api_trending(r) ==
    LET key == TrendingKey(r.geo)
        cached == CacheGetRet(CACHE, now, key)
        C1 == CacheGetStore(CACHE, now, key)
        eff == CacheGetEffects(CACHE, now, key)
    IN  IF Truthy(cached)
        THEN /\ resp' = Response(200, PyDict([items |-> cached.v]))
             /\ CACHE' = C1
             /\ calls' = <<>>
             /\ effects' = eff
        ELSE \E out \in Outcomes(TrendingFrames) :
             /\ calls' = <<Call("trending_searches", StrLower(r.geo), out)>>
             /\ IF out.raised
                THEN /\ resp' = BadGateway
                     /\ CACHE' = C1
                     /\ effects' = eff \cup {"provider"}
                ELSE LET items == Head30(DropNa(out.val)) IN
                     /\ CACHE' = cache_set(C1, now, key, PyList(items), 60 * 30)
                     /\ resp' = Response(200, PyDict([items |-> items]))
                     /\ effects' = eff \cup {"provider", "cache_write"}

Trending ==
    \E r \in TrendingReqs :
        /\ auth_middleware(r) = "call_next"
        /\ req' = r
        /\ api_trending(r)
        /\ UNCHANGED <<now, groups, keywords, gseq, kseq, setLog>>

InterestReqs ==
    [op : {"interest"}, path : {<<"api", "interest">>}, key : Keys,
     kw : Kws, geo : Geos, since : Sinces]

\* api_interest storing an empty payload when the provider has no data
api_interestCachesFailure(r) ==
    LET ps == parse_since(r.since) IN
    IF ps.raised
    THEN /\ resp' = ServerError
         /\ calls' = <<>>
         /\ effects' = {}
         /\ UNCHANGED CACHE
    ELSE
    LET tf == ps.val
        key == InterestKey(r.kw, r.geo, tf)
        cached == CacheGetRet(CACHE, now, key)
        C1 == CacheGetStore(CACHE, now, key)
        eff == CacheGetEffects(CACHE, now, key)
    IN  IF Truthy(cached)
        THEN /\ resp' = Response(200, cached)
             /\ CACHE' = C1
             /\ calls' = <<>>
             /\ effects' = eff
        ELSE \E out \in Outcomes(InterestFrames(r.kw)) :
             /\ calls' = <<Call("interest_over_time", <<r.kw, tf, r.geo>>, out)>>
             /\ IF out.raised
                THEN /\ resp' = BadGateway
                     /\ CACHE' = C1
                     /\ effects' = eff \cup {"provider"}
                ELSE IF FrameEmpty(out.val) \/ r.kw \notin DOMAIN out.val.columns
                THEN /\ resp' = BadGateway
                     /\ CACHE' = cache_set(C1, now, key, PyDict([labels |-> <<>>, values |-> <<>>]), NoTtl)
                     /\ effects' = eff \cup {"provider", "cache_write"}
                ELSE LET series == FillNa0(out.val.columns[r.kw]) IN
                     IF AsIntRaises(series)
                     THEN /\ resp' = BadGateway
                          /\ CACHE' = C1
                          /\ effects' = eff \cup {"provider"}
                     ELSE LET payload == PyDict([labels |-> out.val.index, values |-> series]) IN
                          /\ CACHE' = cache_set(C1, now, key, payload, NoTtl)
                          /\ resp' = Response(200, payload)
                          /\ effects' = eff \cup {"provider", "cache_write"}

api_interest(r) ==
    LET ps == parse_since(r.since) IN
    IF ps.raised
    THEN /\ resp' = ServerError
         /\ calls' = <<>>
         /\ effects' = {}
         /\ UNCHANGED CACHE
    ELSE
    LET tf == ps.val
        key == InterestKey(r.kw, r.geo, tf)
        cached == CacheGetRet(CACHE, now, key)
        C1 == CacheGetStore(CACHE, now, key)
        eff == CacheGetEffects(CACHE, now, key)
    IN  IF Truthy(cached)
        THEN /\ resp' = Response(200, cached)
             /\ CACHE' = C1
             /\ calls' = <<>>
             /\ effects' = eff
        ELSE \E out \in Outcomes(InterestFrames(r.kw)) :
             /\ calls' = <<Call("interest_over_time", <<r.kw, tf, r.geo>>, out)>>
             /\ IF out.raised
                THEN /\ resp' = BadGateway
                     /\ CACHE' = C1
                     /\ effects' = eff \cup {"provider"}
                ELSE IF FrameEmpty(out.val) \/ r.kw \notin DOMAIN out.val.columns
                THEN /\ resp' = BadGateway
                     /\ CACHE' = C1
                     /\ effects' = eff \cup {"provider"}
                ELSE LET series == FillNa0(out.val.columns[r.kw]) IN
                     IF AsIntRaises(series)
                     THEN /\ resp' = BadGateway
                          /\ CACHE' = C1
                          /\ effects' = eff \cup {"provider"}
                     ELSE LET payload == PyDict([labels |-> out.val.index, values |-> series]) IN
                          /\ CACHE' = cache_set(C1, now, key, payload, NoTtl)
                          /\ resp' = Response(200, payload)
                          /\ effects' = eff \cup {"provider", "cache_write"}

Interest ==
    \E r \in InterestReqs :
        /\ auth_middleware(r) = "call_next"
        /\ req' = r
        /\ api_interest(r)
        /\ UNCHANGED <<now, groups, keywords, gseq, kseq, setLog>>

RelatedReqs ==
    [op : {"related"}, path : {<<"api", "related">>}, key : Keys,
     kw : Kws, geo : Geos, since : Sinces]

\* BlockRecords falling back to the top block when the named one is None
BlockRecordsFallback(rq, kw, name) ==
    IF kw \notin DOMAIN rq THEN <<>>
    ELSE IF rq[kw][name].t = "none" THEN Records(rq[kw]["top"].v)
    ELSE Records(rq[kw][name].v)

\* "top" in block and isinstance(block["top"], pd.DataFrame)
BlockRecords(rq, kw, name) ==
    IF kw \notin DOMAIN rq THEN <<>>
    ELSE IF rq[kw][name].t = "none" THEN <<>>
    ELSE Records(rq[kw][name].v)

api_related(r) ==
    LET ps == parse_since(r.since) IN
    IF ps.raised
    THEN /\ resp' = ServerError
         /\ calls' = <<>>
         /\ effects' = {}
         /\ UNCHANGED CACHE
    ELSE
    LET tf == ps.val
        key == RelatedKey(r.kw, r.geo, tf)
        cached == CacheGetRet(CACHE, now, key)
        C1 == CacheGetStore(CACHE, now, key)
        eff == CacheGetEffects(CACHE, now, key)
    IN  IF Truthy(cached)
        THEN /\ resp' = Response(200, cached)
             /\ CACHE' = C1
             /\ calls' = <<>>
             /\ effects' = eff
        ELSE \E out \in Outcomes(RelatedResults(r.kw)) :
             /\ calls' = <<Call("related_queries", <<r.kw, tf, r.geo>>, out)>>
             /\ IF out.raised
                THEN /\ resp' = BadGateway
                     /\ CACHE' = C1
                     /\ effects' = eff \cup {"provider"}
                ELSE LET res == PyDict([top |-> BlockRecords(out.val, r.kw, "top"),
                                        rising |-> BlockRecords(out.val, r.kw, "rising")]) IN
                     /\ CACHE' = cache_set(C1, now, key, res, 60 * 30)
                     /\ resp' = Response(200, res)
                     /\ effects' = eff \cup {"provider", "cache_write"}

Related ==
    \E r \in RelatedReqs :
        /\ auth_middleware(r) = "call_next"
        /\ req' = r
        /\ api_related(r)
        /\ UNCHANGED <<now, groups, keywords, gseq, kseq, setLog>>

(* --------------------------- batch aggregator -------------------------- *)
Terms == {<<"a">>, <<"b">>}

\* the handler never looks inside a term: the seed lists are i copies of one
\* term followed by j copies of another, which gives repeated seeds, distinct
\* seeds and tails beyond the fifth seed that differ from the head
SeedLists ==
    {[k \in 1..(i + j) |-> IF k <= i THEN <<"a">> ELSE <<"b">>] :
        i \in 0..MaxSeeds, j \in 0..MaxSeeds} \cap
    UNION {[1..n -> Terms] : n \in 0..MaxSeeds}

BatchReqs ==
    [op : {"batch_interest"}, path : {<<"api", "batch_interest">>}, key : Keys,
     geo : Geos, since : Sinces, seeds : SeedLists]

\* payload.seeds[:5]
FirstFive(seeds) == SubSeq(seeds, 1, Min(5, Len(seeds)))

\* one iteration of the loop body on the accumulator [labels, series]
BatchStepRelabel(acc, term, out) ==
    IF out.raised THEN acc
    ELSE IF FrameEmpty(out.val) \/ term \notin DOMAIN out.val.columns THEN acc
    ELSE LET s == FillNa0(out.val.columns[term])
             labels == PyList(out.val.index)
         IN  IF AsIntRaises(s) THEN [acc EXCEPT !.labels = labels]
             ELSE [labels |-> labels,
                   series |-> Append(acc.series, [term |-> term, values |-> s])]

BatchStep(acc, term, out) ==
    IF out.raised THEN acc
    ELSE IF FrameEmpty(out.val) \/ term \notin DOMAIN out.val.columns THEN acc
    ELSE LET s == FillNa0(out.val.columns[term])
             labels == IF acc.labels.t = "none" THEN PyList(out.val.index) ELSE acc.labels
         IN  IF AsIntRaises(s) THEN [acc EXCEPT !.labels = labels]
             ELSE [labels |-> labels,
                   series |-> Append(acc.series, [term |-> term, values |-> s])]

\* the loop over terms with the provider outcomes outs, from accumulator acc
RECURSIVE BatchLoop(_, _, _)
BatchLoop(acc, terms, outs) ==
    IF terms = <<>> THEN acc
    ELSE BatchLoop(BatchStep(acc, Head(terms), Head(outs)), Tail(terms), Tail(outs))

api_batch_interest(r) ==
    LET ps == parse_since(r.since) IN
    IF ps.raised
    THEN /\ resp' = ServerError
         /\ calls' = <<>>
         /\ effects' = {}
    ELSE
    LET tf == ps.val
        terms == FirstFive(r.seeds)
    IN  \E kinds \in [1..Len(terms) -> FrameKinds \cup {"raise"}] :
        LET outs == [i \in 1..Len(terms) |-> InterestOutcome(kinds[i], terms[i])]
            acc == BatchLoop([labels |-> PyNone, series |-> <<>>], terms, outs)
        IN  /\ calls' = [i \in 1..Len(terms) |->
                            Call("interest_over_time", <<terms[i], tf, r.geo>>, outs[i])]
            /\ effects' = IF terms = <<>> THEN {} ELSE {"provider"}
            /\ resp' = Response(200,
                         PyDict([labels |-> IF Truthy(acc.labels) THEN acc.labels.v ELSE <<>>,
                                 series |-> acc.series]))

\* the batch handler storing the series of its first seed as an interest entry
BatchInterestOfCaching(R) ==
    \E r \in R :
        /\ auth_middleware(r) = "call_next"
        /\ req' = r
        /\ api_batch_interest(r)
        /\ CACHE' =
             IF resp'.status = 200 /\ resp'.body.v.series # <<>>
             THEN cache_set(CACHE, now,
                            InterestKey(resp'.body.v.series[1].term, r.geo, parse_since(r.since).val),
                            PyDict([labels |-> resp'.body.v.labels,
                                    values |-> resp'.body.v.series[1].values]),
                            NoTtl)
             ELSE CACHE
        /\ UNCHANGED <<now, groups, keywords, gseq, kseq, setLog>>

BatchInterestOf(R) ==
    \E r \in R :
        /\ auth_middleware(r) = "call_next"
        /\ req' = r
        /\ api_batch_interest(r)
        /\ UNCHANGED <<CACHE, now, groups, keywords, gseq, kseq, setLog>>

BatchInterest == BatchInterestOf(BatchReqs)

\* batch requests of at most one seed
ShortBatchReqs == {r \in BatchReqs : Len(r.seeds) <= 1}

(* ------------------------ groups/keywords registry --------------------- *)
\* groups: id -> name; keywords: id -> [group_id, term]; gseq and kseq are
\* the AUTOINCREMENT sequences of the two tables
GroupNames == {<<"n", " ">>}
KeywordTerms == {<<"a">>}
GroupIds == 1..MaxGroups
KeywordIds == 1..MaxKeywords

\* the elements of the set S of numbers, largest first (ORDER BY id DESC)
RECURSIVE Descending(_)
Descending(S) ==
    IF S = {} THEN <<>>
    ELSE LET m == CHOOSE x \in S : \A y \in S : y <= x
         IN  <<m>> \o Descending(S \ {m})

Ok == Response(200, PyDict([ok |-> TRUE]))
NotFound == Response(404, PyDict([detail |-> "Skupina neexistuje"]))

ListGroupsReqs == [op : {"list_groups"}, path : {<<"api", "groups">>}, key : Keys]

list_groups(r) ==
    LET gids == Descending(DOMAIN groups)
        kwsOf(g) == Descending({k \in DOMAIN keywords : keywords[k].group_id = g})
        item(g) == [id |-> g, name |-> groups[g],
                    keywords |-> [i \in 1..Len(kwsOf(g)) |->
                                    [id |-> kwsOf(g)[i], term |-> keywords[kwsOf(g)[i]].term]]]
    IN  /\ resp' = Response(200, PyDict([items |-> [i \in 1..Len(gids) |-> item(gids[i])]]))
        /\ effects' = {"db_read"}
        /\ UNCHANGED <<groups, keywords, gseq, kseq>>

ListGroups ==
    \E r \in ListGroupsReqs :
        /\ auth_middleware(r) = "call_next"
        /\ req' = r
        /\ list_groups(r)
        /\ calls' = <<>>
        /\ UNCHANGED <<CACHE, now, setLog>>

CreateGroupReqs ==
    [op : {"create_group"}, path : {<<"api", "groups">>}, key : Keys, name : GroupNames]

create_group(r) ==
    /\ gseq < MaxGroups
    /\ gseq' = gseq + 1
    /\ groups' = Put(groups, gseq + 1, StrStrip(r.name))
    /\ resp' = Response(200, PyDict([id |-> gseq + 1, name |-> r.name]))
    /\ effects' = {"db_write"}
    /\ UNCHANGED <<keywords, kseq>>

CreateGroup ==
    \E r \in CreateGroupReqs :
        /\ auth_middleware(r) = "call_next"
        /\ req' = r
        /\ create_group(r)
        /\ calls' = <<>>
        /\ UNCHANGED <<CACHE, now, setLog>>

DeleteGroupReqs ==
    {[op |-> "delete_group", path |-> <<"api", "groups", g>>, key |-> k, gid |-> g] :
        g \in GroupIds, k \in Keys}

delete_group(r) ==
    /\ keywords' = [k \in {x \in DOMAIN keywords : keywords[x].group_id # r.gid} |-> keywords[k]]
    /\ groups' = Remove(groups, r.gid)
    /\ resp' = Ok
    /\ effects' = {"db_write"}
    /\ UNCHANGED <<gseq, kseq>>

DeleteGroup ==
    \E r \in DeleteGroupReqs :
        /\ auth_middleware(r) = "call_next"
        /\ req' = r
        /\ delete_group(r)
        /\ calls' = <<>>
        /\ UNCHANGED <<CACHE, now, setLog>>

CreateKeywordReqs ==
    [op : {"create_keyword"}, path : {<<"api", "keywords">>}, key : Keys,
     group_id : GroupIds, term : KeywordTerms]

create_keyword(r) ==
    IF r.group_id \notin DOMAIN groups
    THEN /\ resp' = NotFound
         /\ effects' = {"db_read"}
         /\ UNCHANGED <<groups, keywords, gseq, kseq>>
    ELSE /\ kseq < MaxKeywords
         /\ kseq' = kseq + 1
         /\ keywords' = Put(keywords, kseq + 1, [group_id |-> r.group_id, term |-> StrStrip(r.term)])
         /\ resp' = Response(200, PyDict([id |-> kseq + 1, group_id |-> r.group_id, term |-> r.term]))
         /\ effects' = {"db_read", "db_write"}
         /\ UNCHANGED <<groups, gseq>>

CreateKeyword ==
    \E r \in CreateKeywordReqs :
        /\ auth_middleware(r) = "call_next"
        /\ req' = r
        /\ create_keyword(r)
        /\ calls' = <<>>
        /\ UNCHANGED <<CACHE, now, setLog>>

DeleteKeywordReqs ==
    {[op |-> "delete_keyword", path |-> <<"api", "keywords", i>>, key |-> k, kid |-> i] :
        i \in KeywordIds, k \in Keys}

delete_keyword(r) ==
    /\ keywords' = Remove(keywords, r.kid)
    /\ resp' = Ok
    /\ effects' = {"db_write"}
    /\ UNCHANGED <<groups, gseq, kseq>>

DeleteKeyword ==
    \E r \in DeleteKeywordReqs :
        /\ auth_middleware(r) = "call_next"
        /\ req' = r
        /\ delete_keyword(r)
        /\ calls' = <<>>
        /\ UNCHANGED <<CACHE, now, setLog>>

\* a path outside /api/ (the generated documentation) passes the gate
\* whatever the key and touches nothing
DocsReqs == [op : {"docs"}, path : {<<"docs">>}, key : Keys]

Docs ==
    \E r \in DocsReqs :
        /\ auth_middleware(r) = "call_next"
        /\ req' = r
        /\ resp' = Response(200, PyDict([docs |-> TRUE]))
        /\ calls' = <<>>
        /\ effects' = {}
        /\ UNCHANGED <<CACHE, now, groups, keywords, gseq, kseq, setLog>>

Reject(R) ==
    \E r \in R :
        /\ auth_middleware(r) = "reject"
        /\ req' = r
        /\ resp' = Unauthorized
        /\ calls' = <<>>
        /\ effects' = {}
        /\ UNCHANGED <<CACHE, now, groups, keywords, gseq, kseq, setLog>>

TimeSteps == {600, 601}

Tick ==
    \E d \in TimeSteps :
        /\ now + d <= MaxTime
        /\ now' = now + d
        /\ UNCHANGED <<CACHE, groups, keywords, gseq, kseq, req, resp, calls, effects, setLog>>

Init ==
    /\ Quiet
    /\ req = Idle
    /\ resp = NoResp

Next ==
    \/ Trending
    \/ Interest
    \/ Related
    \/ Reject(TrendingReqs \cup InterestReqs \cup RelatedReqs)
    \/ Tick

Spec == Init /\ [][Next]_vars

(* ----------------------- the cache store on its own -------------------- *)
CacheKeys == {<<"k", "1">>, <<"k", "2">>}
CacheVals == {PyList(<<"v1">>), PyList(<<"v2">>)}
CacheTtls == {NoTtl, 0, 1, 2}

Returns(v) == [status |-> 1, body |-> v]

\* setLog remembers the arguments and the time of the latest cache_set of
\* each key
CacheSetOp ==
    \E k \in CacheKeys : \E v \in CacheVals : \E ttl \in CacheTtls :
        /\ req' = [op |-> "cache_set", k |-> k, v |-> v, ttl |-> ttl]
        /\ CACHE' = cache_set(CACHE, now, k, v, ttl)
        /\ resp' = Returns(PyNone)
        /\ setLog' = Put(setLog, k, [v |-> v, ttl |-> ttl, at |-> now])
        /\ UNCHANGED <<now, groups, keywords, gseq, kseq, calls, effects>>

CacheGetOp ==
    \E k \in CacheKeys :
        /\ req' = [op |-> "cache_get", k |-> k]
        /\ resp' = Returns(CacheGetRet(CACHE, now, k))
        /\ CACHE' = CacheGetStore(CACHE, now, k)
        /\ UNCHANGED <<now, groups, keywords, gseq, kseq, calls, effects, setLog>>

TickUnit ==
    /\ now < MaxCacheNow
    /\ now' = now + 1
    /\ UNCHANGED <<CACHE, groups, keywords, gseq, kseq, req, resp, calls, effects, setLog>>

NextCache ==
    \/ CacheSetOp
    \/ CacheGetOp
    \/ TickUnit

SpecCache == Init /\ [][NextCache]_vars

(* ------------------ the cache store under concurrency ------------------ *)
\* the handlers are plain functions, which the server runs on worker
\* threads; in this specification req[t] is what thread t is doing inside
\* cache_get or cache_set and resp[t] what its last call returned
Threads == {1, 2}
ConcKeys == {<<"k", "1">>}

NoItem == [present |-> FALSE, e |-> [data |-> PyNone, ts |-> 0, ttl |-> 0]]
Item(e) == [present |-> TRUE, e |-> e]

ThreadIdle == [op |-> "idle", pc |-> "idle", k |-> <<>>, item |-> NoItem]

InitConc ==
    /\ Quiet
    /\ req = [t \in Threads |-> ThreadIdle]
    /\ resp = [t \in Threads |-> Returns(PyNone)]

\* item = CACHE.get(k); if not item: return None
GetRead(t) ==
    \E k \in ConcKeys :
        /\ req[t].pc = "idle"
        /\ IF k \in DOMAIN CACHE
           THEN /\ req' = [req EXCEPT ![t] =
                            [op |-> "cache_get", pc |-> "got", k |-> k, item |-> Item(CACHE[k])]]
                /\ UNCHANGED resp
           ELSE /\ req' = [req EXCEPT ![t] =
                            [op |-> "cache_get", pc |-> "idle", k |-> k, item |-> NoItem]]
                /\ resp' = [resp EXCEPT ![t] = Returns(PyNone)]
        /\ UNCHANGED <<CACHE, now, groups, keywords, gseq, kseq, calls, effects, setLog>>

\* if time.time() - item["ts"] > item["ttl"]: ... else return item["data"]
GetCompare(t) ==
    /\ req[t].pc = "got"
    /\ IF now - req[t].item.e.ts > req[t].item.e.ttl
       THEN /\ req' = [req EXCEPT ![t].pc = "pop"]
            /\ UNCHANGED resp
       ELSE /\ req' = [req EXCEPT ![t].pc = "idle"]
            /\ resp' = [resp EXCEPT ![t] = Returns(req[t].item.e.data)]
    /\ UNCHANGED <<CACHE, now, groups, keywords, gseq, kseq, calls, effects, setLog>>

\* CACHE.pop(k, None); return None
GetPop(t) ==
    /\ req[t].pc = "pop"
    /\ CACHE' = Remove(CACHE, req[t].k)
    /\ req' = [req EXCEPT ![t].pc = "idle"]
    /\ resp' = [resp EXCEPT ![t] = Returns(PyNone)]
    /\ UNCHANGED <<now, groups, keywords, gseq, kseq, calls, effects, setLog>>

\* CACHE[k] = {...}: one dictionary store
ThreadSet(t) ==
    \E k \in ConcKeys : \E v \in CacheVals : \E ttl \in CacheTtls :
        /\ req[t].pc = "idle"
        /\ CACHE' = cache_set(CACHE, now, k, v, ttl)
        /\ req' = [req EXCEPT ![t] = [op |-> "cache_set", pc |-> "idle", k |-> k, item |-> NoItem]]
        /\ resp' = [resp EXCEPT ![t] = Returns(PyNone)]
        /\ UNCHANGED <<now, groups, keywords, gseq, kseq, calls, effects, setLog>>

TickConc ==
    /\ now < MaxCacheNow
    /\ now' = now + 1
    /\ UNCHANGED <<CACHE, groups, keywords, gseq, kseq, req, resp, calls, effects, setLog>>

NextConc ==
    \/ \E t \in Threads : GetRead(t)
    \/ \E t \in Threads : GetCompare(t)
    \/ \E t \in Threads : GetPop(t)
    \/ \E t \in Threads : ThreadSet(t)
    \/ TickConc

SpecConc == InitConc /\ [][NextConc]_vars

(* -------------------- the registry under concurrency ------------------- *)
\* every handler opens a connection of its own; a transaction becomes
\* visible to the other connections at its commit, and SQLite does not
\* enforce the FOREIGN KEY clause unless PRAGMA foreign_keys is set, which
\* db() never does.  req[t] is what thread t is doing.
RegIdle == [op |-> "idle", pc |-> "idle", group_id |-> 0, term |-> <<>>]

InitReg ==
    /\ Quiet
    /\ req = [t \in Threads |-> RegIdle]
    /\ resp = [t \in Threads |-> NoResp]

\* INSERT INTO groups ...; commit
RegCreateGroup(t) ==
    \E name \in GroupNames :
        /\ req[t].pc = "idle"
        /\ gseq < MaxGroups
        /\ gseq' = gseq + 1
        /\ groups' = Put(groups, gseq + 1, StrStrip(name))
        /\ req' = [req EXCEPT ![t] = [RegIdle EXCEPT !.op = "create_group"]]
        /\ resp' = [resp EXCEPT ![t] = Response(200, PyDict([id |-> gseq + 1, name |-> name]))]
        /\ UNCHANGED <<CACHE, now, keywords, kseq, calls, effects, setLog>>

\* DELETE FROM keywords ...; DELETE FROM groups ...; commit
RegDeleteGroup(t) ==
    \E gid \in GroupIds :
        /\ req[t].pc = "idle"
        /\ keywords' = [k \in {x \in DOMAIN keywords : keywords[x].group_id # gid} |-> keywords[k]]
        /\ groups' = Remove(groups, gid)
        /\ req' = [req EXCEPT ![t] = [RegIdle EXCEPT !.op = "delete_group", !.group_id = gid]]
        /\ resp' = [resp EXCEPT ![t] = Ok]
        /\ UNCHANGED <<CACHE, now, gseq, kseq, calls, effects, setLog>>

\* create_keyword: SELECT id FROM groups WHERE id=?; 404 when there is no row
RegSelectGroup(t) ==
    \E gid \in GroupIds : \E term \in KeywordTerms :
        /\ req[t].pc = "idle"
        /\ IF gid \in DOMAIN groups
           THEN /\ req' = [req EXCEPT ![t] =
                            [op |-> "create_keyword", pc |-> "insert", group_id |-> gid, term |-> term]]
                /\ UNCHANGED resp
           ELSE /\ req' = [req EXCEPT ![t] =
                            [op |-> "create_keyword", pc |-> "idle", group_id |-> gid, term |-> term]]
                /\ resp' = [resp EXCEPT ![t] = NotFound]
        /\ UNCHANGED <<CACHE, now, groups, keywords, gseq, kseq, calls, effects, setLog>>

\* create_keyword: INSERT INTO keywords ...; commit
RegInsertKeyword(t) ==
    /\ req[t].pc = "insert"
    /\ kseq < MaxKeywords
    /\ kseq' = kseq + 1
    /\ keywords' = Put(keywords, kseq + 1,
                       [group_id |-> req[t].group_id, term |-> StrStrip(req[t].term)])
    /\ req' = [req EXCEPT ![t].pc = "idle"]
    /\ resp' = [resp EXCEPT ![t] =
                  Response(200, PyDict([id |-> kseq + 1, group_id |-> req[t].group_id,
                                        term |-> req[t].term]))]
    /\ UNCHANGED <<CACHE, now, groups, gseq, calls, effects, setLog>>

\* DELETE FROM keywords WHERE id=?; commit
RegDeleteKeyword(t) ==
    \E kid \in KeywordIds :
        /\ req[t].pc = "idle"
        /\ keywords' = Remove(keywords, kid)
        /\ req' = [req EXCEPT ![t] = [RegIdle EXCEPT !.op = "delete_keyword"]]
        /\ resp' = [resp EXCEPT ![t] = Ok]
        /\ UNCHANGED <<CACHE, now, groups, gseq, kseq, calls, effects, setLog>>

NextReg ==
    \/ \E t \in Threads : RegCreateGroup(t)
    \/ \E t \in Threads : RegDeleteGroup(t)
    \/ \E t \in Threads : RegSelectGroup(t)
    \/ \E t \in Threads : RegInsertKeyword(t)
    \/ \E t \in Threads : RegDeleteKeyword(t)

SpecReg == InitReg /\ [][NextReg]_vars

(* -------------------------- the cache key alone ------------------------ *)
KeyTexts == UNION {[1..n -> {"a", ":"}] : n \in 1..MaxKeyText}

WindowTokens == {Window(3, "m"), Window(12, "m")}

\* a logical request: the operation and the parameters its result depends on
LogicalReqs ==
    [op : {"trending"}, geo : KeyTexts] \cup
    [op : {"interest", "related"}, kw : KeyTexts, geo : KeyTexts, tf : WindowTokens]

CacheKey(q) ==
    CASE q.op = "trending" -> TrendingKey(q.geo)
      [] q.op = "interest" -> InterestKey(q.kw, q.geo, q.tf)
      [] q.op = "related" -> RelatedKey(q.kw, q.geo, q.tf)

InitKey ==
    /\ Quiet
    /\ req \in [op : {"cache_key"}, a : LogicalReqs, b : LogicalReqs]
    /\ resp = NoResp

CacheKeyOp ==
    /\ req.op = "cache_key"
    /\ resp = NoResp
    /\ resp' = [status |-> 1, a |-> CacheKey(req.a), b |-> CacheKey(req.b)]
    /\ UNCHANGED <<CACHE, now, groups, keywords, gseq, kseq, req, calls, effects, setLog>>

NextKey == CacheKeyOp

SpecKey == InitKey /\ [][NextKey]_vars

AllReqs ==
    TrendingReqs \cup InterestReqs \cup RelatedReqs \cup ShortBatchReqs \cup
    ListGroupsReqs \cup CreateGroupReqs \cup DeleteGroupReqs \cup
    CreateKeywordReqs \cup DeleteKeywordReqs \cup DocsReqs

\* every route behind the gate, at one instant
NextGate ==
    \/ Trending
    \/ Interest
    \/ Related
    \/ BatchInterestOf(ShortBatchReqs)
    \/ ListGroups
    \/ CreateGroup
    \/ DeleteGroup
    \/ CreateKeyword
    \/ DeleteKeyword
    \/ Docs
    \/ Reject(AllReqs)

SpecGate == Init /\ [][NextGate]_vars

\* interest and batch requests over the same cache, with time passing
NextBatchCache ==
    \/ Interest
    \/ BatchInterestOf(ShortBatchReqs)
    \/ Reject(InterestReqs \cup ShortBatchReqs)
    \/ Tick

SpecBatchCache == Init /\ [][NextBatchCache]_vars

\* the batch handler reads nothing but its request, so one request from the
\* initial state covers every request
NextBatch ==
    /\ req = Idle
    /\ \/ BatchInterest
       \/ Reject(BatchReqs)

SpecBatch == Init /\ [][NextBatch]_vars

(* ----------------------- claims about parse_since ---------------------- *)
RECURSIVE DecimalValue(_)
DecimalValue(d) ==
    IF d = <<>> THEN 0
    ELSE DigitVal(Head(d)) * (10 ^ (Len(d) - 1)) + DecimalValue(Tail(d))

AllSpaces(s) == \A i \in 1..Len(s) : s[i] = " "

AllAsciiDigits(d) == d # <<>> /\ \A i \in 1..Len(d) : d[i] \in AsciiDigits

\* the ways to read s as <spaces><decimal digits d><unit letter c><spaces>
Readings(s) ==
    {[d |-> SubSeq(s, p[1] + 1, p[2] - 1), c |-> s[p[2]]] :
        p \in {q \in (0..Len(s)) \X (1..Len(s)) :
                /\ q[1] + 1 < q[2]
                /\ AllSpaces(SubSeq(s, 1, q[1]))
                /\ AllSpaces(SubSeq(s, q[2] + 1, Len(s)))
                /\ AllAsciiDigits(SubSeq(s, q[1] + 1, q[2] - 1))}}

SinceDone == req.op = "parse_since" /\ resp.status = 1

UnitCap(u) == IF u = "m" THEN 12 ELSE 5

UnitLetters(u) == IF u = "m" THEN {"m", "M"} ELSE {"y", "Y"}

\* C7: a positive decimal count n followed by m (or y), in any letter case and
\* with optional surrounding whitespace, translates to "today n-m" ("today n-y")
\* when n is at most 12 (5), and to "today 12-m" ("today 5-y") above that.
C7_ClampedWindow ==
    SinceDone =>
        \A r \in Readings(req.since) : \A u \in {"m", "y"} :
            (r.c \in UnitLetters(u) /\ DecimalValue(r.d) >= 1) =>
                resp.result =
                    Returned(Today \o IntToStr(Min(DecimalValue(r.d), UnitCap(u))) \o <<"-", u>>)

C7_Witness ==
    /\ SinceDone
    /\ req.since = <<" ", "1", "5", "M">>
    /\ resp.result = Returned(<<"t", "o", "d", "a", "y", " ", "1", "2", "-", "m">>)

IsPositiveCount(s) ==
    \E r \in Readings(s) : r.c \in {"m", "M", "y", "Y"} /\ DecimalValue(r.d) >= 1

\* C8: every input that is not a positive integer followed by m or y
\* (unparsable, empty, negative, zero count) translates to the default
\* "today 12-m".
C8_DefaultForOther ==
    (SinceDone /\ ~IsPositiveCount(req.since)) =>
        resp.result = Returned(<<"t", "o", "d", "a", "y", " ", "1", "2", "-", "m">>)

\* C9: parse_since is total: it returns a window token for every input and
\* never raises.
C9_Total == SinceDone => ~resp.result.raised

(* ------------------------ claims about the batch ----------------------- *)
BatchDone == req.op = "batch_interest" /\ req.key = API_KEY /\ resp.status # 0

\* the i-th provider call returned a frame holding data for its term
Yielded(i) ==
    /\ ~calls[i].result.raised
    /\ calls[i].result.val.index # <<>>
    /\ calls[i].arg[1] \in DOMAIN calls[i].result.val.columns

\* ... and the data could be turned into an integer series
Succeeded(i) ==
    /\ Yielded(i)
    /\ \A j \in 1..Len(calls[i].result.val.index) :
          calls[i].result.val.columns[calls[i].arg[1]][j] # NumInf

RECURSIVE TermsOfSucceeded(_)
TermsOfSucceeded(i) ==
    IF i = 0 THEN <<>>
    ELSE IF Succeeded(i) THEN Append(TermsOfSucceeded(i - 1), calls[i].arg[1])
    ELSE TermsOfSucceeded(i - 1)

FetchedTerms == [i \in 1..Len(calls) |-> calls[i].arg[1]]

SeriesTerms == [i \in 1..Len(resp.body.v.series) |-> resp.body.v.series[i].term]

\* C4: the batch never fails as a whole; its series holds exactly one entry,
\* in seed order, for each of the first five seeds whose fetch succeeded with
\* data, and when every seed fails the result is {labels: [], series: []}.
C4_BatchNeverFails ==
    BatchDone =>
        /\ resp.status = 200
        /\ Len(calls) = Min(5, Len(req.seeds))
        /\ SeriesTerms = TermsOfSucceeded(Len(calls))
        /\ (\A i \in 1..Len(calls) : ~Succeeded(i)) =>
               resp.body = PyDict([labels |-> <<>>, series |-> <<>>])

\* C5: with more than five seeds the batch fetches exactly seeds[0..4] and
\* never fetches, or reports a series for, a seed at index 5 or later.
C5_OnlyFirstFive ==
    (BatchDone /\ Len(req.seeds) > 5) =>
        /\ FetchedTerms = SubSeq(req.seeds, 1, 5)
        /\ resp.status = 200 =>
              \A i \in 1..Len(SeriesTerms) :
                  \E j \in 1..5 : SeriesTerms[i] = req.seeds[j]

\* C6: in every batch result, labels is the label sequence of the first seed
\* (in seed order) whose fetch yielded a non-empty series; later seeds never
\* replace it.
C6_LabelsOfFirstYield ==
    (BatchDone /\ resp.status = 200) =>
        \A i \in 1..Len(calls) :
            (Yielded(i) /\ \A j \in 1..(i - 1) : ~Yielded(j)) =>
                resp.body.v.labels = calls[i].result.val.index

C6_Witness ==
    /\ BatchDone
    /\ resp.status = 200
    /\ Len(calls) = 5
    /\ calls[1].result.raised
    /\ Yielded(2) /\ Yielded(4)
    /\ calls[2].result.val.index = <<"w3">>
    /\ calls[4].result.val.index = <<"w1", "w2">>
    /\ Len(resp.body.v.series) >= 2
    /\ resp.body.v.labels = <<"w3">>

(* ------------------ claims about the cached endpoints ------------------ *)
CachedOps == {"trending", "interest", "related"}

\* the request r reaches its handler and resolves a cache key
Keyed(r) ==
    /\ r.op \in CachedOps
    /\ r.key = API_KEY
    /\ r.op # "trending" => ~parse_since(r.since).raised

KeyOf(r) ==
    CASE r.op = "trending" -> TrendingKey(r.geo)
      [] r.op = "interest" -> InterestKey(r.kw, r.geo, parse_since(r.since).val)
      [] r.op = "related" -> RelatedKey(r.kw, r.geo, parse_since(r.since).val)

\* the entry of k is stored and has not expired
Live(k) == k \in DOMAIN CACHE /\ now - CACHE[k].ts <= CACHE[k].ttl

\* what a hit on stored data d answers
Served(r, d) == IF r.op = "trending" THEN PyDict([items |-> d.v]) ELSE d

\* C1: once a request has stored its result, every identical request that
\* arrives before the entry expires returns the stored result and makes no
\* provider call, whatever the stored result is (an empty trending list too).
C1_HitServesStored ==
    [][(now' = now /\ Keyed(req') /\ Live(KeyOf(req'))) =>
            /\ resp' = Response(200, Served(req', CACHE[KeyOf(req')].data))
            /\ calls' = <<>>]_vars

\* C3: a request under /api/ whose key is absent or wrong is answered 401
\* and runs no core logic: no provider call, no cache read, write or
\* eviction, no read or change of a group or keyword row.
C3_RejectedBeforeCore ==
    [][(req' # Idle /\ PathIsApi(req'.path) /\ req'.key # API_KEY) =>
            /\ resp' = Unauthorized
            /\ calls' = <<>>
            /\ effects' = {}
            /\ UNCHANGED <<CACHE, groups, keywords, gseq, kseq>>]_vars

C3_Witness ==
    /\ req # Idle
    /\ PathIsApi(req.path)
    /\ req.key = None
    /\ req.op = "create_keyword"
    /\ resp = Unauthorized
    /\ DOMAIN CACHE # {}
    /\ DOMAIN groups # {}

(* ---------------------- claims about the cache store ------------------- *)
\* this step is a cache_get of k
GetStep(k) == now' = now /\ req'.op = "cache_get" /\ req'.k = k

\* C2: cache_set(k, v, ttl=T) followed immediately by cache_get(k) returns v;
\* once T time units have passed since the set, cache_get(k) returns absent,
\* the entry is gone, and so does every later cache_get(k) until the next set
\* (for every T >= 0).
C2_SetGetExpire ==
    [][\A k \in DOMAIN setLog :
          (GetStep(k) /\ setLog[k].ttl # NoTtl) =>
              /\ now = setLog[k].at => resp'.body = setLog[k].v
              /\ now - setLog[k].at > setLog[k].ttl =>
                     (resp'.body = PyNone /\ k \notin DOMAIN CACHE')]_vars

(* ----------------------- claims about the cache key -------------------- *)
KeyDone == req.op = "cache_key" /\ resp.status = 1

\* C10: two requests get the same cache key if and only if they have the
\* same operation, keyword, geo and window token.
C10_KeyInjective == KeyDone => ((resp.a = resp.b) <=> (req.a = req.b))

\* C19: in every batch result labels is non-empty exactly when series is
\* non-empty, also when processing a seed raises after its labels were read.
C19_LabelsIffSeries ==
    (BatchDone /\ resp.status = 200) =>
        (resp.body.v.labels # <<>> <=> resp.body.v.series # <<>>)

(* ------------------- claims about failures and retries ----------------- *)
\* the provider call c of an interest request for kw was unusable: it
\* raised, returned no data, or returned data without the term
Unusable(c, kw) ==
    \/ c.result.raised
    \/ c.result.val.index = <<>>
    \/ DOMAIN c.result.val.columns = {}
    \/ kw \notin DOMAIN c.result.val.columns

\* the interest request q reached the provider and got nothing usable
\* (cs is the log of its provider calls)
FailedInterest(q, cs) ==
    /\ q.op = "interest"
    /\ q.key = API_KEY
    /\ Len(cs) = 1
    /\ Unusable(cs[1], q.kw)

InterestFailed == FailedInterest(req, calls)

\* C11: an interest request whose provider call raises, returns no data or
\* returns data without the term answers 502 and stores no entry for its key,
\* so the identical request that follows it calls the provider again.
C11_FailureNotCached ==
    [][/\ FailedInterest(req', calls') =>
            /\ resp' = BadGateway
            /\ "cache_write" \notin effects'
            /\ KeyOf(req') \notin DOMAIN CACHE'
       /\ (FailedInterest(req, calls) /\ req' = req) => Len(calls') = 1]_vars

C11_Witness ==
    /\ InterestFailed
    /\ ~calls[1].result.raised
    /\ calls[1].result.val.index # <<>>
    /\ req.kw \notin DOMAIN calls[1].result.val.columns
    /\ resp = BadGateway
    /\ now > 1200
    /\ DOMAIN CACHE # {}

\* the terms of the provider calls cs, in call order
TermsFetched(cs) == [i \in 1..Len(cs) |-> cs[i].arg[1]]

\* C12: no provider call is retried: a trending, interest or related request
\* makes at most one provider call and none on a cache hit; a batch request
\* makes exactly min(len(seeds), 5) calls, one per processed seed, in seed
\* order, whether the calls succeed or fail.
C12_NoRetry ==
    [][/\ (req'.op \in CachedOps /\ req'.key = API_KEY) => Len(calls') <= 1
       /\ (now' = now /\ Keyed(req') /\ Live(KeyOf(req'))
             /\ Truthy(CACHE[KeyOf(req')].data)) => calls' = <<>>
       /\ (req'.op = "batch_interest" /\ req'.key = API_KEY) =>
             TermsFetched(calls') = SubSeq(req'.seeds, 1, Min(Len(req'.seeds), 5))]_vars

(* --------------------- claims about related queries -------------------- *)
RelatedOk == req.op = "related" /\ req.key = API_KEY /\ resp.status = 200

IsSequence(x) == DOMAIN x = 1..Len(x)

IsRecordList(x) ==
    /\ IsSequence(x)
    /\ \A i \in 1..Len(x) : DOMAIN x[i] = {"query", "value"} /\ x[i].value >= 0

\* the block name of the provider answer rq for kw, or PyNone when the
\* provider supplied none
Supplied(rq, kw, name) == IF kw \in DOMAIN rq THEN rq[kw][name] ELSE PyNone

\* the field got is the projection of the supplied block
ProjectionOf(got, block) ==
    IF block.t = "none" THEN got = <<>>
    ELSE /\ Len(got) = Len(block.v)
         /\ \A i \in 1..Len(got) :
               /\ got[i].query = block.v[i].query
               /\ got[i].value = IF block.v[i].value = NumNaN THEN 0 ELSE block.v[i].value

\* C13: every successful related result has both top and rising, each a
\* sequence of {query, value} records: the projection of the block the
\* provider supplied, and empty when the provider supplied none.
C13_BothBlocks ==
    RelatedOk =>
        /\ DOMAIN resp.body.v = {"top", "rising"}
        /\ IsRecordList(resp.body.v.top)
        /\ IsRecordList(resp.body.v.rising)
        /\ calls # <<>> =>
              /\ ProjectionOf(resp.body.v.top, Supplied(calls[1].result.val, req.kw, "top"))
              /\ ProjectionOf(resp.body.v.rising, Supplied(calls[1].result.val, req.kw, "rising"))

C13_Witness ==
    /\ RelatedOk
    /\ calls # <<>>
    /\ req.kw \in DOMAIN calls[1].result.val
    /\ calls[1].result.val[req.kw].rising = PyNone
    /\ Len(resp.body.v.top) = 2
    /\ resp.body.v.top[2].value = 0
    /\ resp.body.v.rising = <<>>

(* ------------------- claims about the batch and the cache -------------- *)
CacheEffects == {"cache_read", "cache_write", "cache_evict"}

\* C14: a batch request reads, writes and evicts no cache entry, whatever its
\* seeds and the outcomes of its fetches; it fetches every processed seed
\* even when an interest result for that seed is cached.
C14_BatchBypassesCache ==
    [][(req'.op = "batch_interest" /\ req'.key = API_KEY) =>
          /\ CACHE' = CACHE
          /\ effects' \cap CacheEffects = {}
          /\ resp'.status = 200 => Len(calls') = Min(5, Len(req'.seeds))]_vars

C14_Witness ==
    /\ req.op = "batch_interest"
    /\ req.key = API_KEY
    /\ resp.status = 200
    /\ Len(calls) = 1
    /\ Live(InterestKey(req.seeds[1], req.geo, parse_since(req.since).val))
    /\ now > 0

(* ----------------- claims about eviction and replacement --------------- *)
SameEntry(k) ==
    /\ k \in DOMAIN CACHE <=> k \in DOMAIN CACHE'
    /\ k \in DOMAIN CACHE => CACHE'[k] = CACHE[k]

\* this step is a cache_get or a cache_set of a key other than k
OtherKeyStep(k) ==
    now' = now /\ req'.op \in {"cache_get", "cache_set"} /\ req'.k # k

\* C15: an entry leaves the cache only in a cache_get of its own key that
\* finds it expired; cache_get and cache_set of a key leave the entries of
\* all other keys as they are; the passage of time removes nothing.
C15_LazyLocalEviction ==
    [][/\ \A k \in DOMAIN CACHE :
             k \notin DOMAIN CACHE' =>
                 (GetStep(k) /\ now - CACHE[k].ts > CACHE[k].ttl)
       /\ \A k \in CacheKeys : OtherKeyStep(k) => SameEntry(k)
       /\ now' # now => CACHE' = CACHE]_vars

C15_Witness ==
    /\ req.op = "cache_get"
    /\ resp.body = PyNone
    /\ req.k \in DOMAIN setLog
    /\ req.k \notin DOMAIN CACHE
    /\ \E k \in DOMAIN CACHE : k # req.k /\ now - CACHE[k].ts > CACHE[k].ttl

\* the entry that cache_set(k, v, ttl) is said to leave at time t
FreshEntry(v, t, ttl) ==
    [data |-> v, ts |-> t, ttl |-> IF ttl = NoTtl THEN CACHE_TTL ELSE ttl]

\* C16: cache_set over an existing entry replaces it wholesale: the entry is
\* the new data, stamped with the time of this set and carrying this set's
\* ttl, and a cache_get that follows at once returns the new data.
C16_SetReplaces ==
    [][/\ (now' = now /\ req'.op = "cache_set" /\ req'.k \in DOMAIN CACHE) =>
             CACHE'[req'.k] = FreshEntry(req'.v, now, req'.ttl)
       /\ \A k \in DOMAIN setLog :
             (GetStep(k) /\ now = setLog[k].at) => resp'.body = setLog[k].v]_vars

\* C17: cache_get(k) treats the entry as expired exactly when
\* now - ts > ttl: a read when exactly ttl has passed returns the value and
\* evicts nothing; a read at any later time returns absent and evicts it.
C17_StrictExpiry ==
    [][\A k \in DOMAIN CACHE :
          GetStep(k) =>
              IF now - CACHE[k].ts > CACHE[k].ttl
              THEN resp'.body = PyNone /\ k \notin DOMAIN CACHE'
              ELSE resp'.body = CACHE[k].data /\ CACHE' = CACHE]_vars

C17_Witness ==
    /\ req.op = "cache_get"
    /\ req.k \in DOMAIN CACHE
    /\ now > 0
    /\ now - CACHE[req.k].ts = CACHE[req.k].ttl
    /\ resp.body = CACHE[req.k].data

(* ---------------------- claims about concurrency ----------------------- *)
\* C18: under any interleaving of concurrent requests on one key no cache
\* update is lost: an entry that has not expired is never removed by the
\* eviction step of a cache_get that had read an older, expired entry.
C18_NoLostUpdate ==
    [][\A k \in DOMAIN CACHE :
          now - CACHE[k].ts <= CACHE[k].ttl => k \in DOMAIN CACHE']_vars

\* C20: after any sequence or interleaving of create_group, delete_group,
\* create_keyword and delete_keyword, the group_id of every stored keyword
\* is the id of a stored group.
C20_ReferentialIntegrity ==
    \A k \in DOMAIN keywords : keywords[k].group_id \in DOMAIN groups

====
